---- MODULE Spec2Model ----
(***************************************************************************)
(* Model of extractor.py (Extractor v5.0): the normalizers, the amount     *)
(* extractor, the field extractor and the batch loop of main.              *)
(*                                                                         *)
(* A Python str is a sequence of one-character strings.  A float obtained  *)
(* from float() on a string of digits and dots is the record               *)
(* [k |-> "float", m |-> mantissa, e |-> exponent] of the decimal          *)
(* m * 10^e with m not divisible by 10 (0.0 is m = 0, e = 0); two such     *)
(* decimals of at most 15 significant digits are equal exactly when the    *)
(* doubles are.  None is [k |-> "None"].                                   *)
(***************************************************************************)
EXTENDS Integers, Sequences, FiniteSets, TLC

VARIABLES pc, arg, ret, texto, nombre_fichero, zona_resumen,
          importes_normalizados, resultado, idx, datos,
          PYMUPDF_AVAILABLE, docs, filas, procesados, llamadas, salida

vars == <<pc, arg, ret, texto, nombre_fichero, zona_resumen,
          importes_normalizados, resultado, idx, datos,
          PYMUPDF_AVAILABLE, docs, filas, procesados, llamadas, salida>>

(***************************************************************************)
(* Characters                                                              *)
(***************************************************************************)
Digits == {"0", "1", "2", "3", "4", "5", "6", "7", "8", "9"}

UpperSeq == <<"A", "B", "C", "D", "E", "F", "G", "H", "I", "J", "K", "L", "M",
              "N", "O", "P", "Q", "R", "S", "T", "U", "V", "W", "X", "Y", "Z">>

LowerSeq == <<"a", "b", "c", "d", "e", "f", "g", "h", "i", "j", "k", "l", "m",
              "n", "o", "p", "q", "r", "s", "t", "u", "v", "w", "x", "y", "z">>

UpperSet == {UpperSeq[k] : k \in 1..26}

LowerSet == {LowerSeq[k] : k \in 1..26}

\* \s of the re module, on the characters the model uses
Space == {" ", "\n", "\t", "\r"}

\* \w of the re module: letters (accented ones and the ordinal indicator
\* included), digits and the underscore; the degree sign is not one
WordChars == UpperSet \cup LowerSet \cup Digits \cup {"_", "ú", "ó", "º"}

\* [\d.,]
NumChars == Digits \cup {".", ","}

ToLower(c) == IF c \in UpperSet
              THEN LowerSeq[CHOOSE k \in 1..26 : UpperSeq[k] = c]
              ELSE c

ToUpper(c) == IF c \in LowerSet
              THEN UpperSeq[CHOOSE k \in 1..26 : LowerSeq[k] = c]
              ELSE c

(***************************************************************************)
(* Regular expressions: the syntax tree of a pattern, and the re module's  *)
(* backtracking matcher.  M yields every way the pattern matches at        *)
(* position i, in the order the matcher tries them: an outcome is          *)
(* <<end, group>>, end the position after the match and group the span     *)
(* <<first, end>> of capturing group 1 (<<0, 0>> while unset).  The first  *)
(* outcome is the match re finds.                                          *)
(***************************************************************************)
INF == 0 - 1

Lit(c) == [t |-> "lit", c |-> c]

Cls(S) == [t |-> "cls", s |-> S]

Dot == [t |-> "dot"]

Cat(xs) == [t |-> "cat", xs |-> xs]

Alt(xs) == [t |-> "alt", xs |-> xs]

Rep(r, lo, hi) == [t |-> "rep", r |-> r, lo |-> lo, hi |-> hi, lazy |-> FALSE]

Opt(r) == Rep(r, 0, 1)

Star(r) == Rep(r, 0, INF)

Plus(r) == Rep(r, 1, INF)

LazyStar(r) == [t |-> "rep", r |-> r, lo |-> 0, hi |-> INF, lazy |-> TRUE]

Grp(r) == [t |-> "grp", r |-> r]

\* a literal word of the pattern
Str(w) == Cat([k \in 1..Len(w) |-> Lit(w[k])])

EqCh(c, d, ic) == c = d \/ (ic /\ ToLower(c) = ToLower(d))

InCls(c, S, ic) == c \in S \/ (ic /\ (ToLower(c) \in S \/ ToUpper(c) \in S))

RECURSIVE M(_, _, _, _, _), CatM(_, _, _, _, _, _), AltM(_, _, _, _, _, _),
          RepM(_, _, _, _, _, _), Each(_, _, _, _, _, _)

\* the outcomes of continuing with cont(o) after each outcome o of os, in order
Each(os, k, kind, r, s, x) ==
  IF k > Len(os) THEN <<>>
  ELSE (CASE kind = "cat" -> CatM(r, x.n, s, os[k][1], x.ic, os[k][2])
          [] kind = "rep" -> IF os[k][1] > x.i
                             THEN RepM(r, s, os[k][1], x.ic, os[k][2], x.n + 1)
                             ELSE <<>>
          [] kind = "grp" -> << <<os[k][1], <<x.i, os[k][1]>> >> >>)
       \o Each(os, k + 1, kind, r, s, x)

CatM(xs, n, s, i, ic, g) ==
  IF n > Len(xs) THEN << <<i, g>> >>
  ELSE Each(M(xs[n], s, i, ic, g), 1, "cat", xs, s, [n |-> n + 1, ic |-> ic, i |-> i])

AltM(xs, n, s, i, ic, g) ==
  IF n > Len(xs) THEN <<>>
  ELSE M(xs[n], s, i, ic, g) \o AltM(xs, n + 1, s, i, ic, g)

RepM(r, s, i, ic, g, n) ==
  LET more == IF r.hi = INF \/ n < r.hi
              THEN Each(M(r.r, s, i, ic, g), 1, "rep", r, s, [n |-> n, ic |-> ic, i |-> i])
              ELSE <<>>
      stop == IF n >= r.lo THEN << <<i, g>> >> ELSE <<>>
  IN IF r.lazy THEN stop \o more ELSE more \o stop

M(r, s, i, ic, g) ==
  CASE r.t = "lit" -> IF i <= Len(s) /\ EqCh(s[i], r.c, ic) THEN << <<i + 1, g>> >> ELSE <<>>
    [] r.t = "cls" -> IF i <= Len(s) /\ InCls(s[i], r.s, ic) THEN << <<i + 1, g>> >> ELSE <<>>
    [] r.t = "dot" -> IF i <= Len(s) THEN << <<i + 1, g>> >> ELSE <<>>
    [] r.t = "cat" -> CatM(r.xs, 1, s, i, ic, g)
    [] r.t = "alt" -> AltM(r.xs, 1, s, i, ic, g)
    [] r.t = "rep" -> RepM(r, s, i, ic, g, 0)
    [] r.t = "grp" -> Each(M(r.r, s, i, ic, g), 1, "grp", r, s, [n |-> 0, ic |-> ic, i |-> i])

NoMatch == [found |-> FALSE, start |-> 0, end |-> 0, g1 |-> <<>>]

\* re.search(r, s[from..]): the leftmost position the pattern matches at
SearchFrom(r, s, from, ic) ==
  LET hits == {i \in from..(Len(s) + 1) : M(r, s, i, ic, <<0, 0>>) # <<>>}
  IN IF hits = {} THEN NoMatch
     ELSE LET i == CHOOSE a \in hits : \A b \in hits : a <= b
              o == M(r, s, i, ic, <<0, 0>>)[1]
          IN [found |-> TRUE, start |-> i, end |-> o[1],
              g1 |-> IF o[2][1] = 0 THEN <<>> ELSE SubSeq(s, o[2][1], o[2][2] - 1)]

Search(r, s, ic) == SearchFrom(r, s, 1, ic)

RECURSIVE FindAllFrom(_, _, _)
\* re.findall(r, s) for a pattern without groups: the non-overlapping matches
FindAllFrom(r, s, from) ==
  LET m == SearchFrom(r, s, from, FALSE)
  IN IF ~m.found THEN <<>>
     ELSE <<SubSeq(s, m.start, m.end - 1)>> \o
          FindAllFrom(r, s, IF m.end > m.start THEN m.end ELSE m.end + 1)

FindAll(r, s) == FindAllFrom(r, s, 1)

(***************************************************************************)
(* Python values                                                           *)
(***************************************************************************)
None == [k |-> "None"]

PyStr(s) == [k |-> "str", v |-> s]

\* an exception leaving a call
Raise(e) == [k |-> "raise", exc |-> e]

\* truth value of a str-or-None argument: None and "" are false
Truthy(x) == x.k = "str" /\ x.v # <<>>

\* truth value of a float-or-None: None and 0.0 are false
TruthyNum(x) == x.k = "float" /\ x.m # 0

\* s.strip()
RECURSIVE LStrip(_), RStrip(_)
LStrip(s) == IF s # <<>> /\ Head(s) \in Space THEN LStrip(Tail(s)) ELSE s

RStrip(s) == IF s # <<>> /\ s[Len(s)] \in Space THEN RStrip(SubSeq(s, 1, Len(s) - 1)) ELSE s

Strip(s) == RStrip(LStrip(s))

\* re.sub(r'[^...]', '', s): keep the characters of the set
Keep(s, S) == SelectSeq(s, LAMBDA c : c \in S)

\* re.sub(r'[...]', '', s): drop the characters of the set
Drop(s, S) == SelectSeq(s, LAMBDA c : c \notin S)

\* s.replace(a, b) for one-character a and b
ReplaceChar(s, a, b) == [k \in 1..Len(s) |-> IF s[k] = a THEN b ELSE s[k]]

\* s[:n]
Prefix(s, n) == SubSeq(s, 1, IF Len(s) < n THEN Len(s) ELSE n)

\* s[-n:]
Suffix(s, n) == SubSeq(s, IF Len(s) > n THEN Len(s) - n + 1 ELSE 1, Len(s))

IsPrefixAt(w, s, i) == i + Len(w) - 1 <= Len(s) /\ SubSeq(s, i, i + Len(w) - 1) = w

RECURSIVE ReplaceAllFrom(_, _, _, _)
\* s.replace(w, b): every non-overlapping occurrence of w, left to right
ReplaceAllFrom(s, w, b, i) ==
  IF i > Len(s) THEN <<>>
  ELSE IF IsPrefixAt(w, s, i) THEN b \o ReplaceAllFrom(s, w, b, i + Len(w))
  ELSE <<s[i]>> \o ReplaceAllFrom(s, w, b, i + 1)

ReplaceAll(s, w, b) == ReplaceAllFrom(s, w, b, 1)

(***************************************************************************)
(* float(s) on a string of digits and dots                                 *)
(***************************************************************************)
DigitSeq == <<"0", "1", "2", "3", "4", "5", "6", "7", "8", "9">>

DigitVal(c) == (CHOOSE k \in 1..10 : DigitSeq[k] = c) - 1

RECURSIVE DropLeadingZeros(_), TrailingZeros(_), DigitsToNat(_), Pow10(_)
DropLeadingZeros(d) == IF d # <<>> /\ Head(d) = "0" THEN DropLeadingZeros(Tail(d)) ELSE d

TrailingZeros(d) == IF d # <<>> /\ d[Len(d)] = "0"
                    THEN 1 + TrailingZeros(SubSeq(d, 1, Len(d) - 1))
                    ELSE 0

DigitsToNat(d) == IF d = <<>> THEN 0
                  ELSE 10 * DigitsToNat(SubSeq(d, 1, Len(d) - 1)) + DigitVal(d[Len(d)])

Pow10(n) == IF n = 0 THEN 1 ELSE 10 * Pow10(n - 1)

Flt(m, e) == [k |-> "float", m |-> m, e |-> e]

\* the value of the digits d scaled by 10^e, as a normalized decimal
Decimal(d, e) ==
  LET z == TrailingZeros(d)
      sig == DropLeadingZeros(SubSeq(d, 1, Len(d) - z))
  IN IF sig = <<>> THEN Flt(0, 0) ELSE Flt(DigitsToNat(sig), e + z)

Float(s) ==
  LET dots == {k \in 1..Len(s) : s[k] = "."}
      p == IF dots = {} THEN Len(s) + 1 ELSE CHOOSE k \in dots : TRUE
      d == Keep(s, Digits)
  IN IF Cardinality(dots) > 1 \/ d = <<>> \/ Keep(s, NumChars) # s \/ "," \in {s[k] : k \in 1..Len(s)}
     THEN Raise("ValueError")
     ELSE Decimal(d, 0 - (Len(s) - p + (IF dots = {} THEN 1 ELSE 0)))

RECURSIVE NumDigits(_)
NumDigits(n) == IF n < 10 THEN 1 ELSE 1 + NumDigits(n \div 10)

\* a <= b for floats that are not negative: by order of magnitude first,
\* by the digits when the magnitudes agree
Leq(a, b) ==
  LET lo == IF a.e < b.e THEN a.e ELSE b.e
      ma == NumDigits(a.m) + a.e
      mb == NumDigits(b.m) + b.e
  IN IF a.m = 0 THEN TRUE
     ELSE IF b.m = 0 THEN FALSE
     ELSE IF ma # mb THEN ma < mb
     ELSE a.m * Pow10(a.e - lo) <= b.m * Pow10(b.e - lo)

\* c * x for the literal c = n / 10^d
Times(n, d, x) == Flt(n * x.m, x.e - d)

(***************************************************************************)
(* Normalizers                                                             *)
(***************************************************************************)
normalizar_numero(numero) ==
  IF Truthy(numero) THEN Keep(Strip(numero.v), WordChars \cup {"-"}) ELSE <<>>

normalizar_fecha(fecha) ==
  IF ~Truthy(fecha) THEN <<>>
  ELSE Prefix(Keep(fecha.v, Digits \cup {"/", ".", "-"}), 10)

\* the second substitution with the dot left out of the kept characters
normalizar_importe_sin_punto(importe) ==
  IF ~Truthy(importe) THEN None
  ELSE LET s1 == Drop(Strip(importe.v), {"€", "E", "U", "R"} \cup Space)
           s2 == Keep(ReplaceChar(s1, ",", "."), Digits)
           r == Float(s2)
       IN IF r.k = "raise" THEN None ELSE r

\* without the try/except around float()
normalizar_importe_sin_except(importe) ==
  IF ~Truthy(importe) THEN None
  ELSE LET s1 == Drop(Strip(importe.v), {"€", "E", "U", "R"} \cup Space)
           s2 == Keep(ReplaceChar(s1, ",", "."), NumChars)
       IN Float(s2)

normalizar_importe(importe) ==
  IF ~Truthy(importe) THEN None
  ELSE LET s1 == Drop(Strip(importe.v), {"€", "E", "U", "R"} \cup Space)
           s2 == Keep(ReplaceChar(s1, ",", "."), NumChars)
           r == Float(s2)
       IN IF r.k = "raise" THEN None ELSE r

(***************************************************************************)
(* extraer_importes_universal                                              *)
(***************************************************************************)
\* texto[-3000:]
WINDOW == 3000

\* \s*
Sp == Star(Cls(Space))

\* \s*[:\-\(\)]*\s*([\d.,]+)
Amount == <<Sp, Star(Cls({":", "-", "(", ")"})), Sp, Grp(Plus(Cls(NumChars)))>>

\* .*?([\d.,]+)
LaterAmount == <<LazyStar(Dot), Grp(Plus(Cls(NumChars)))>>

\* r'[\d.,]{3,}(?:[.,]\d{2})?'
TokenPattern ==
  Cat(<<Rep(Cls(NumChars), 3, INF),
        Opt(Cat(<<Cls({".", ","}), Rep(Cls(Digits), 2, 2)>>))>>)

PatTotal1 ==
  Cat(<<Alt(<<Cat(<<Str(<<"T", "o", "t", "a", "l">>), Sp,
                    Opt(Alt(<<Str(<<"f", "a", "c", "t", "u", "r", "a">>), Str(<<"a", " ", "p", "a", "g", "a", "r">>), Str(<<"f", "i", "n", "a", "l">>), Str(<<"e", "n", " ", "E", "U", "R">>)>>))>>),
              Str(<<"T", "O", "T", "A", "L">>),
              Str(<<"I", "m", "p", "o", "r", "t", "e", " ", "t", "o", "t", "a", "l">>)>>)>> \o Amount)

PatTotal2 == Cat(<<Str(<<"T", "O", "T", "A", "L">>)>> \o Amount)

PatBase1 ==
  Cat(<<Alt(<<Cat(<<Str(<<"B", "a", "s", "e">>), Sp,
                    Alt(<<Str(<<"i", "m", "p", "o", "n", "i", "b", "l", "e">>), Cat(<<Str(<<"i", "m", "p">>), Opt(Lit("."))>>)>>)>>),
              Str(<<"S", "u", "b", "t", "o", "t", "a", "l">>),
              Cat(<<Str(<<"N", "e", "t">>), Opt(Lit("o"))>>),
              Cat(<<Str(<<"I", "M", "P", "O", "R", "T", "E">>), Sp, Str(<<"(", "b", "a", "s", "e", " ", "i", "m", "p", "o", "n", "i", "b", "l", "e", ")">>)>>)>>)>> \o Amount)

PatBase2 == Cat(<<Str(<<"b", "a", "s", "e", " ", "i", "m", "p", "o", "n", "i", "b", "l", "e", ")">>)>> \o LaterAmount)

PatIva1 ==
  Cat(<<Alt(<<Cat(<<Str(<<"I", "V">>), Opt(Lit("A"))>>),
              Cat(<<Str(<<"I", ".", "V", ".", "A">>), Opt(Lit("."))>>),
              Cat(<<Str(<<"I", "M", "P", "U", "E", "S", "T", "O", "S">>), Sp, Str(<<"(", "2", "1">>)>>),
              Str(<<"I", "m", "p", "u", "e", "s", "t", "o">>),
              Str(<<"C", "u", "o", "t", "a", " ", "I", "V", "A">>)>>)>> \o Amount)

PatIva2 ==
  Cat(<<Str(<<"(", "2", "1">>), Opt(Str(<<".", "0", "0">>)), Opt(Lit("%")), Sp, Str(<<"I", "V">>), Opt(Lit("A")), Lit(")")>>
      \o LaterAmount)

PatIva3 == Cat(<<Str(<<"I", ".", "V", ".", "A", ".">>)>> \o LaterAmount)

patrones_universal ==
  <<[patron |-> PatTotal1, campo |-> "total"],
    [patron |-> PatTotal2, campo |-> "total"],
    [patron |-> PatBase1, campo |-> "base_imponible"],
    [patron |-> PatBase2, campo |-> "base_imponible"],
    [patron |-> PatIva1, campo |-> "iva"],
    [patron |-> PatIva2, campo |-> "iva"],
    [patron |-> PatIva3, campo |-> "iva"]>>

ResultadoInicial == [total |-> None, base_imponible |-> None, iva |-> None]

\* the window one character too long
ZonaResumenLarga(t) == Suffix(t, WINDOW + 1)

\* zona_resumen = texto[-3000:]
ZonaResumen(t) == Suffix(t, WINDOW)

\* [normalizar_importe(x) for x in todos_importes if normalizar_importe(x)]
ImportesNormalizados(zona) ==
  LET todos_importes == FindAll(TokenPattern, zona)
      norm == [k \in 1..Len(todos_importes) |-> normalizar_importe(PyStr(todos_importes[k]))]
  IN SelectSeq(norm, TruthyNum)

\* one turn of the loop over patrones_universal: pattern number k
PatronStep(res, k, zona) ==
  LET p == patrones_universal[k]
      match == Search(p.patron, zona, TRUE)
  IN IF match.found /\ ~TruthyNum(res[p.campo])
     THEN LET valor == normalizar_importe(PyStr(match.g1))
          IN IF TruthyNum(valor) THEN [res EXCEPT ![p.campo] = valor] ELSE res
     ELSE res

RECURSIVE PatronLoop(_, _, _)
\* the loop from pattern number k on
PatronLoop(res, k, zona) ==
  IF k > Len(patrones_universal) THEN res
  ELSE PatronLoop(PatronStep(res, k, zona), k + 1, zona)

\* the band without its upper factor
InBandHastaTotal(total, imp) == Leq(Times(7, 1, total), imp) /\ Leq(imp, total)

\* 0.7 * total <= imp <= 0.95 * total, in exact decimal arithmetic: the doubles
\* of the source decide the same way except for an imp lying exactly on an
\* edge of the band, where the rounding of the product decides (the amounts
\* of AmtLines are not such edges, but for 70.0 and 95.0 of the total 100.0,
\* on which the doubles agree with the decimals)
InBand(total, imp) == Leq(Times(7, 1, total), imp) /\ Leq(imp, Times(95, 2, total))

\* the coherence fallback
Fallback(res, importes) ==
  IF TruthyNum(res.total) /\ ~TruthyNum(res.base_imponible)
  THEN LET ok == {k \in 1..Len(importes) : InBand(res.total, importes[k])}
       IN IF ok = {} THEN res
          ELSE [res EXCEPT !.base_imponible =
                  importes[CHOOSE a \in ok : \A b \in ok : a <= b]]
  ELSE res

extraer_importes_universal(t) ==
  LET zona == ZonaResumen(t)
  IN Fallback(PatronLoop(ResultadoInicial, 1, zona), ImportesNormalizados(zona))

(***************************************************************************)
(* extraer_datos_factura_completo                                          *)
(***************************************************************************)
\* \s*[:\-]?\s*
Sep == <<Sp, Opt(Cls({":", "-"})), Sp>>

\* (\w+)
Word == Grp(Plus(Cls(WordChars)))

\* r'N(?:\.°|º)?\s*de?\s*factura\s*[:\-]?\s*(\w+)'
PatNumero1 ==
  Cat(<<Lit("N"), Opt(Alt(<<Str(<<".", "°">>), Lit("º")>>)), Sp, Lit("d"), Opt(Lit("e")), Sp,
        Str(<<"f", "a", "c", "t", "u", "r", "a">>)>> \o Sep \o <<Word>>)

\* r'Número\s*[:\-]?\s*(\w+)'
PatNumero2 == Cat(<<Str(<<"N", "ú", "m", "e", "r", "o">>)>> \o Sep \o <<Word>>)

\* r'Factura[:\-]?\s*(\w+)'
PatNumero3 == Cat(<<Str(<<"F", "a", "c", "t", "u", "r", "a">>), Opt(Cls({":", "-"})), Sp, Word>>)

\* r'Fecha\s+de?\s*(?:factura|facturación|emisión)\s*[:\-]?\s*([\d/\.-]{8,10})'
PatFecha ==
  Cat(<<Str(<<"F", "e", "c", "h", "a">>), Plus(Cls(Space)), Lit("d"), Opt(Lit("e")), Sp,
        Alt(<<Str(<<"f", "a", "c", "t", "u", "r", "a">>), Str(<<"f", "a", "c", "t", "u", "r", "a", "c", "i", "ó", "n">>), Str(<<"e", "m", "i", "s", "i", "ó", "n">>)>>)>> \o Sep \o
      <<Grp(Rep(Cls(Digits \cup {"/", ".", "-"}), 8, 10))>>)

\* r'(?:CIF|NIF|IVA:\s*)([A-Z]\d{8}[A-Z]?)'
PatNif ==
  Cat(<<Alt(<<Str(<<"C", "I", "F">>), Str(<<"N", "I", "F">>), Cat(<<Str(<<"I", "V", "A", ":">>), Sp>>)>>),
        Grp(Cat(<<Cls(UpperSet), Rep(Cls(Digits), 8, 8), Opt(Cls(UpperSet))>>))>>)

\* a or b or c on match objects: the first that is not None
NumeroMatch(t) ==
  LET m1 == Search(PatNumero1, t, FALSE)
      m2 == Search(PatNumero2, t, FALSE)
  IN IF m1.found THEN m1 ELSE IF m2.found THEN m2 ELSE Search(PatNumero3, t, FALSE)

\* the value of the only element of a one-element set
The(S) == CHOOSE x \in S : TRUE

\* each match and the amounts are bound once, as the assignments of the source
\* bind them, and the record is built from them
extraer_datos_factura_completo(t, nombre) ==
  The({[numero_factura |-> IF numero_match.found
                           THEN normalizar_numero(PyStr(numero_match.g1))
                           ELSE ReplaceAll(nombre, <<".", "p", "d", "f">>, <<>>),
        fecha_factura |-> IF fecha_match.found
                          THEN normalizar_fecha(PyStr(fecha_match.g1))
                          ELSE <<>>,
        proveedor |-> IF nif_match.found THEN Prefix(nif_match.g1, 50) ELSE <<>>,
        cliente |-> <<>>,
        base_imponible |-> importes.base_imponible,
        iva |-> importes.iva,
        total |-> importes.total,
        nombre_fichero |-> nombre] :
       numero_match \in {NumeroMatch(t)},
       fecha_match \in {Search(PatFecha, t, FALSE)},
       importes \in {extraer_importes_universal(t)},
       nif_match \in {Search(PatNif, t, TRUE)}})

(***************************************************************************)
(* extraer_texto_completo: a document is [name, opens, pages], opens       *)
(* whether fitz.open and get_text succeed on it, pages the text of each    *)
(* page                                                                    *)
(***************************************************************************)
RECURSIVE PagesText(_)
PagesText(pages) ==
  IF pages = <<>> THEN <<>> ELSE Head(pages) \o <<"\n">> \o PagesText(Tail(pages))

extraer_texto_completo(pdf, available) ==
  IF ~available THEN <<>>
  ELSE IF ~pdf.opens THEN <<>>
  ELSE PagesText(pdf.pages)

(***************************************************************************)
(* Inputs                                                                  *)
(***************************************************************************)
MaxLines == 2

MaxDocs == 2

\* the arguments the normalizers are called with: None, or a str
NormArgs ==
  {None} \cup {PyStr(s) : s \in {
    <<>>,
    \* '80,00'
    <<"8", "0", ",", "0", "0">>,
    \* '16,80'
    <<"1", "6", ",", "8", "0">>,
    \* '96,80'
    <<"9", "6", ",", "8", "0">>,
    \* '1.234,56'
    <<"1", ".", "2", "3", "4", ",", "5", "6">>,
    \* '.'
    <<".">>,
    \* '5.'
    <<"5", ".">>,
    \* '.5'
    <<".", "5">>,
    \* '1 EUR'
    <<"1", " ", "E", "U", "R">>,
    \* '12€'
    <<"1", "2", "€">>,
    \* ' 96,80 '
    <<" ", "9", "6", ",", "8", "0", " ">>,
    \* '0'
    <<"0">>,
    \* '0,00'
    <<"0", ",", "0", "0">>,
    \* '0,00001'
    <<"0", ",", "0", "0", "0", "0", "1">>,
    \* '0,0001'
    <<"0", ",", "0", "0", "0", "1">>,
    \* '0,000015'
    <<"0", ",", "0", "0", "0", "0", "1", "5">>,
    \* '10000000000000000'
    <<"1", "0", "0", "0", "0", "0", "0", "0", "0", "0", "0", "0", "0", "0", "0", "0", "0">>,
    \* '1000000000000000'
    <<"1", "0", "0", "0", "0", "0", "0", "0", "0", "0", "0", "0", "0", "0", "0", "0">>,
    \* '1500000000000000000'
    <<"1", "5", "0", "0", "0", "0", "0", "0", "0", "0", "0", "0", "0", "0", "0", "0", "0", "0", "0">>,
    \* '123456,78'
    <<"1", "2", "3", "4", "5", "6", ",", "7", "8">>,
    \* 'A-123'
    <<"A", "-", "1", "2", "3">>,
    \* ' F_1/2 '
    <<" ", "F", "_", "1", "/", "2", " ">>,
    \* '01/02/2024'
    <<"0", "1", "/", "0", "2", "/", "2", "0", "2", "4">>,
    \* '2024-01-02T10:00'
    <<"2", "0", "2", "4", "-", "0", "1", "-", "0", "2", "T", "1", "0", ":", "0", "0">>,
    \* 'abc'
    <<"a", "b", "c">>,
    \* 'EUR'
    <<"E", "U", "R">>,
    \* ' '
    <<" ">>,
    \* '0,5'
    <<"0", ",", "5">>,
    \* '21%'
    <<"2", "1", "%">>,
    \* 'N.° 7'
    <<"N", ".", "°", " ", "7">>,
    \* '1,5 €'
    <<"1", ",", "5", " ", "€">>}}

AmtLines ==
  {
   \* 'Total: 100,00'
   <<"T", "o", "t", "a", "l", ":", " ", "1", "0", "0", ",", "0", "0">>,
   \* 'TOTAL: 200,00'
   <<"T", "O", "T", "A", "L", ":", " ", "2", "0", "0", ",", "0", "0">>,
   \* 'Total final: 0,00'
   <<"T", "o", "t", "a", "l", " ", "f", "i", "n", "a", "l", ":", " ", "0", ",", "0", "0">>,
   \* 'Total: 5,00'
   <<"T", "o", "t", "a", "l", ":", " ", "5", ",", "0", "0">>,
   \* 'Subtotal: 80,00'
   <<"S", "u", "b", "t", "o", "t", "a", "l", ":", " ", "8", "0", ",", "0", "0">>,
   \* 'Total: 96,80'
   <<"T", "o", "t", "a", "l", ":", " ", "9", "6", ",", "8", "0">>,
   \* '85,00'
   <<"8", "5", ",", "0", "0">>,
   \* '50,00'
   <<"5", "0", ",", "0", "0">>,
   \* 'Base imponible: 70,00'
   <<"B", "a", "s", "e", " ", "i", "m", "p", "o", "n", "i", "b", "l", "e", ":", " ", "7", "0", ",", "0", "0">>,
   \* 'IVA (21%): 16,80'
   <<"I", "V", "A", " ", "(", "2", "1", "%", ")", ":", " ", "1", "6", ",", "8", "0">>,
   \* 'Total: 1.234,56'
   <<"T", "o", "t", "a", "l", ":", " ", "1", ".", "2", "3", "4", ",", "5", "6">>,
   \* 'Neto 95,00 EUR'
   <<"N", "e", "t", "o", " ", "9", "5", ",", "0", "0", " ", "E", "U", "R">>}

RECURSIVE JoinLines(_)
\* "\n".join(ls)
JoinLines(ls) ==
  IF ls = <<>> THEN <<>>
  ELSE IF Len(ls) = 1 THEN ls[1]
  ELSE ls[1] \o <<"\n">> \o JoinLines(Tail(ls))

SeqsUpTo(S, n) == UNION {[1..k -> S] : k \in 0..n}

ShortTexts == {JoinLines(ls) : ls \in SeqsUpTo(AmtLines, MaxLines)}

\* n characters of body text without labels or digits
Padding(n) == [k \in 1..n |-> IF k % 7 = 0 THEN " " ELSE "x"]

LongHeads ==
  {
   \* 'Total: 185,00\n'
   <<"T", "o", "t", "a", "l", ":", " ", "1", "8", "5", ",", "0", "0", "\n">>,
   \* 'Subtotal: 80,00 IVA: 16,80\n'
   <<"S", "u", "b", "t", "o", "t", "a", "l", ":", " ", "8", "0", ",", "0", "0", " ", "I", "V", "A", ":", " ", "1", "6", ",", "8", "0", "\n">>}

LongTails ==
  {
   \* ''
   <<>>,
   \* '\nTotal: 200,00'
   <<"\n", "T", "o", "t", "a", "l", ":", " ", "2", "0", "0", ",", "0", "0">>,
   \* '\n170,00\n'
   <<"\n", "1", "7", "0", ",", "0", "0", "\n">>,
   \* '\nIVA 21,00\nTotal: 121,00'
   <<"\n", "I", "V", "A", " ", "2", "1", ",", "0", "0", "\n", "T", "o", "t", "a", "l", ":", " ", "1", "2", "1", ",", "0", "0">>}

\* the head h, body text and the tail t, with the window starting d characters
\* after the end of the head (inside the head when d < 0)
LongText(h, t, d) == h \o Padding(WINDOW - Len(t) + d) \o t

\* texts at least as long as the window: the window holds the whole head
\* (d = -Len(h)), all but its first character, its last 11 characters, starts
\* right after it (d = 0) or one character later
LongTexts ==
  UNION {{LongText(h, t, d) : t \in LongTails, d \in {0 - Len(h), 1 - Len(h), 0 - 11, 0, 1}} :
           h \in LongHeads}

AmtTexts == ShortTexts \cup LongTexts

Escenario ==
  <<"F", "a", "c", "t", "u", "r", "a", ":", " ", "A", "1", "2", "3", "\n", "F", "e", "c", "h", "a", " ", "d", "e", " ", "f", "a", "c", "t", "u", "r", "a", ":", " ", "0", "1", "/", "0", "2", "/", "2", "0", "2", "4", "\n", "B", "a", "s", "e", " ", "i", "m", "p", "o", "n", "i", "b", "l", "e", ":", " ", "8", "0", ",", "0", "0", "\n", "I", "V", "A", ":", " ", "1", "6", ",", "8", "0", "\n", "T", "o", "t", "a", "l", ":", " ", "9", "6", ",", "8", "0", "\n", "C", "I", "F", ":", " ", "B", "1", "2", "3", "4", "5", "6", "7", "8">>

FieldTexts ==
  {Escenario,
   \* 'hola'
   <<"h", "o", "l", "a">>,
   \* 'Número de factura: F123'
   <<"N", "ú", "m", "e", "r", "o", " ", "d", "e", " ", "f", "a", "c", "t", "u", "r", "a", ":", " ", "F", "1", "2", "3">>,
   \* 'No. de factura: F123'
   <<"N", "o", ".", " ", "d", "e", " ", "f", "a", "c", "t", "u", "r", "a", ":", " ", "F", "1", "2", "3">>,
   \* 'N° de factura: F123'
   <<"N", "°", " ", "d", "e", " ", "f", "a", "c", "t", "u", "r", "a", ":", " ", "F", "1", "2", "3">>,
   \* 'Nº de factura: F123'
   <<"N", "º", " ", "d", "e", " ", "f", "a", "c", "t", "u", "r", "a", ":", " ", "F", "1", "2", "3">>,
   \* 'N.° de factura: F123'
   <<"N", ".", "°", " ", "d", "e", " ", "f", "a", "c", "t", "u", "r", "a", ":", " ", "F", "1", "2", "3">>,
   \* 'Número: X9'
   <<"N", "ú", "m", "e", "r", "o", ":", " ", "X", "9">>,
   \* 'Factura: A1 Número: B2'
   <<"F", "a", "c", "t", "u", "r", "a", ":", " ", "A", "1", " ", "N", "ú", "m", "e", "r", "o", ":", " ", "B", "2">>,
   \* 'Factura-77\nNIFB12345678Z'
   <<"F", "a", "c", "t", "u", "r", "a", "-", "7", "7", "\n", "N", "I", "F", "B", "1", "2", "3", "4", "5", "6", "7", "8", "Z">>,
   \* 'IVA: a12345678\nFecha de emisión 1.2.2024'
   <<"I", "V", "A", ":", " ", "a", "1", "2", "3", "4", "5", "6", "7", "8", "\n", "F", "e", "c", "h", "a", " ", "d", "e", " ", "e", "m", "i", "s", "i", "ó", "n", " ", "1", ".", "2", ".", "2", "0", "2", "4">>,
   \* 'Fecha de facturación: 2024-01-02 Total 5'
   <<"F", "e", "c", "h", "a", " ", "d", "e", " ", "f", "a", "c", "t", "u", "r", "a", "c", "i", "ó", "n", ":", " ", "2", "0", "2", "4", "-", "0", "1", "-", "0", "2", " ", "T", "o", "t", "a", "l", " ", "5">>,
   \* 'CIF: B12345678\nFactura: A_1-2'
   <<"C", "I", "F", ":", " ", "B", "1", "2", "3", "4", "5", "6", "7", "8", "\n", "F", "a", "c", "t", "u", "r", "a", ":", " ", "A", "_", "1", "-", "2">>}

FileNames ==
  {
   \* 'INV-2024-07.pdf'
   <<"I", "N", "V", "-", "2", "0", "2", "4", "-", "0", "7", ".", "p", "d", "f">>,
   \* 'a.pdf'
   <<"a", ".", "p", "d", "f">>,
   \* '.pdf'
   <<".", "p", "d", "f">>,
   \* 'a.pdf.pdf'
   <<"a", ".", "p", "d", "f", ".", "p", "d", "f">>,
   \* 'x.PDF'
   <<"x", ".", "P", "D", "F">>,
   \* 'notas.pdfs.pdf'
   <<"n", "o", "t", "a", "s", ".", "p", "d", "f", "s", ".", "p", "d", "f">>,
   \* 'b'
   <<"b">>}

PageTexts ==
  {<<>>,
   \* '  \t'
   <<" ", " ", "\t">>,
   \* 'Factura: A1\nTotal: 96,80'
   <<"F", "a", "c", "t", "u", "r", "a", ":", " ", "A", "1", "\n", "T", "o", "t", "a", "l", ":", " ", "9", "6", ",", "8", "0">>,
   \* 'Total: 100,00\n85,00'
   <<"T", "o", "t", "a", "l", ":", " ", "1", "0", "0", ",", "0", "0", "\n", "8", "5", ",", "0", "0">>}

Documents ==
  {[opens |-> FALSE, pages |-> <<<<"T", "o", "t", "a", "l", ":", " ", "5", ",", "0", "0">>>>],
   [opens |-> TRUE, pages |-> <<>>]}
  \cup {[opens |-> TRUE, pages |-> <<p>>] : p \in PageTexts}
  \cup {[opens |-> TRUE, pages |-> <<<<" ">>, <<"T", "o", "t", "a", "l", ":", " ", "5", ",", "0", "0">>>>]}

\* the name of the k-th file of the folder: "a.pdf", "b.pdf", ...
DocName(k) == <<LowerSeq[k], ".", "p", "d", "f">>

Folders ==
  {[k \in 1..Len(ds) |-> [name |-> DocName(k), opens |-> ds[k].opens, pages |-> ds[k].pages]] :
     ds \in SeqsUpTo(Documents, MaxDocs)}

(***************************************************************************)
(* State machines.  Each specification starts from the inputs of one part  *)
(* of the program; the variables of the other parts stay as they are.      *)
(***************************************************************************)
NoRet == [fn |-> "none", v |-> None]

NoDatos == [numero_factura |-> <<>>, fecha_factura |-> <<>>, proveedor |-> <<>>,
            cliente |-> <<>>, base_imponible |-> None, iva |-> None, total |-> None,
            nombre_fichero |-> <<>>]

NoSalida == [ret |-> 0 - 1, csv |-> <<>>]

NormIdle == arg = None /\ ret = NoRet

AmtIdle == /\ zona_resumen = <<>>
           /\ importes_normalizados = <<>>
           /\ resultado = ResultadoInicial

FieldIdle == nombre_fichero = <<>> /\ datos = NoDatos

MainIdle == /\ PYMUPDF_AVAILABLE = TRUE
            /\ docs = <<>>
            /\ filas = <<>>
            /\ procesados = 0
            /\ llamadas = <<>>
            /\ salida = NoSalida

normVars == <<arg, ret>>

amtVars == <<zona_resumen, importes_normalizados, resultado>>

fieldVars == <<nombre_fichero, datos>>

mainVars == <<PYMUPDF_AVAILABLE, docs, filas, procesados, llamadas, salida>>

(* the normalizers *)
InitNorm == /\ pc = "call"
            /\ arg \in NormArgs
            /\ ret = NoRet
            /\ texto = <<>> /\ idx = 0
            /\ AmtIdle /\ FieldIdle /\ MainIdle

CallNormalizarNumero ==
  /\ pc = "call"
  /\ ret' = [fn |-> "normalizar_numero", v |-> PyStr(normalizar_numero(arg))]
  /\ pc' = "returned"
  /\ UNCHANGED <<arg, texto, idx, amtVars, fieldVars, mainVars>>

CallNormalizarFecha ==
  /\ pc = "call"
  /\ ret' = [fn |-> "normalizar_fecha", v |-> PyStr(normalizar_fecha(arg))]
  /\ pc' = "returned"
  /\ UNCHANGED <<arg, texto, idx, amtVars, fieldVars, mainVars>>

CallNormalizarImporte ==
  /\ pc = "call"
  /\ ret' = [fn |-> "normalizar_importe", v |-> normalizar_importe(arg)]
  /\ pc' = "returned"
  /\ UNCHANGED <<arg, texto, idx, amtVars, fieldVars, mainVars>>

NextNorm == CallNormalizarNumero \/ CallNormalizarFecha \/ CallNormalizarImporte

SpecNorm == InitNorm /\ [][NextNorm]_vars

(* extraer_importes_universal, statement by statement *)
InitAmt == /\ pc = "window"
           /\ texto \in AmtTexts
           /\ idx = 0
           /\ AmtIdle /\ NormIdle /\ FieldIdle /\ MainIdle

\* zona_resumen, todos_importes, importes_normalizados, resultado
AmtWindow ==
  /\ pc = "window"
  /\ zona_resumen' = ZonaResumen(texto)
  /\ importes_normalizados' = ImportesNormalizados(zona_resumen')
  /\ resultado' = ResultadoInicial
  /\ idx' = 1
  /\ pc' = "loop"
  /\ UNCHANGED <<texto, normVars, fieldVars, mainVars>>

\* one turn of: for patron, campo in patrones_universal
AmtPatron ==
  /\ pc = "loop"
  /\ idx <= Len(patrones_universal)
  /\ resultado' = PatronStep(resultado, idx, zona_resumen)
  /\ idx' = idx + 1
  /\ UNCHANGED <<pc, texto, zona_resumen, importes_normalizados, normVars, fieldVars, mainVars>>

\* the fallback and the return
AmtFallback ==
  /\ pc = "loop"
  /\ idx > Len(patrones_universal)
  /\ resultado' = Fallback(resultado, importes_normalizados)
  /\ pc' = "return"
  /\ UNCHANGED <<idx, texto, zona_resumen, importes_normalizados, normVars, fieldVars, mainVars>>

NextAmt == AmtWindow \/ AmtPatron \/ AmtFallback

SpecAmt == InitAmt /\ [][NextAmt]_vars

(* the normalizers and the amount extractor together *)
InitCore == InitNorm \/ InitAmt

NextCore == NextNorm \/ NextAmt

SpecCore == InitCore /\ [][NextCore]_vars

(* extraer_datos_factura_completo, on the texts main passes on: not empty *)
InitField == /\ pc = "field"
             /\ texto \in (FieldTexts \cup ShortTexts) \ {<<>>}
             /\ nombre_fichero \in FileNames
             /\ datos = NoDatos
             /\ idx = 0
             /\ NormIdle /\ AmtIdle /\ MainIdle

ExtraerDatos ==
  /\ pc = "field"
  /\ datos' = extraer_datos_factura_completo(texto, nombre_fichero)
  /\ pc' = "record"
  /\ UNCHANGED <<texto, nombre_fichero, idx, normVars, amtVars, mainVars>>

NextField == ExtraerDatos

SpecField == InitField /\ [][NextField]_vars

(* main: the loop over the folder and what follows it *)
InitMain == /\ pc = "main"
            /\ PYMUPDF_AVAILABLE \in BOOLEAN
            /\ docs \in Folders
            /\ filas = <<>>
            /\ procesados = 0
            /\ llamadas = <<>>
            /\ salida = NoSalida
            /\ idx = 1
            /\ texto = <<>>
            /\ NormIdle /\ AmtIdle /\ FieldIdle

\* the test without strip()
SkipSinStrip(t) == t = <<>>

\* if not texto.strip()
Skip(t) == Strip(t) = <<>>

\* one turn of: for pdf_path in carpeta.glob("*.pdf"); llamadas records the
\* arguments of each call of extraer_datos_factura_completo
MainLoop ==
  /\ pc = "main"
  /\ idx <= Len(docs)
  /\ procesados' = procesados + 1
  /\ texto' = extraer_texto_completo(docs[idx], PYMUPDF_AVAILABLE)
  /\ IF Skip(texto')
     THEN UNCHANGED <<filas, llamadas>>
     ELSE /\ filas' = Append(filas, extraer_datos_factura_completo(texto', docs[idx].name))
          /\ llamadas' = Append(llamadas, [texto |-> texto', nombre |-> docs[idx].name])
  /\ idx' = idx + 1
  /\ UNCHANGED <<pc, PYMUPDF_AVAILABLE, docs, salida, normVars, amtVars, fieldVars>>

\* after the loop: return 1 without a CSV, or write the rows and return 0
MainEnd ==
  /\ pc = "main"
  /\ idx > Len(docs)
  /\ salida' = IF filas = <<>> THEN [ret |-> 1, csv |-> <<>>] ELSE [ret |-> 0, csv |-> filas]
  /\ pc' = "exit"
  /\ UNCHANGED <<idx, texto, PYMUPDF_AVAILABLE, docs, filas, procesados, llamadas,
                 normVars, amtVars, fieldVars>>

NextMain == MainLoop \/ MainEnd

SpecMain == InitMain /\ [][NextMain]_vars

(***************************************************************************)
(* str(x) of a float x, as the interpreter renders it: the shortest digits *)
(* that read back as x, in positional notation when the decimal point      *)
(* falls within -4 < decpt <= 16, in exponent notation otherwise           *)
(***************************************************************************)
RECURSIVE NatDigits(_)
NatDigits(n) == IF n < 10 THEN <<DigitSeq[n + 1]>>
                ELSE NatDigits(n \div 10) \o <<DigitSeq[(n % 10) + 1]>>

Zeros(n) == [k \in 1..n |-> "0"]

Abs(n) == IF n < 0 THEN 0 - n ELSE n

\* the position of the decimal point: x = 0.d1...dn * 10^decpt
DecPt(x) == Len(NatDigits(x.m)) + x.e

\* whether str renders x without an exponent
Positional(x) == x.m = 0 \/ (0 - 4 < DecPt(x) /\ DecPt(x) <= 16)

FloatStr(x) ==
  LET d == NatDigits(x.m)
      n == Len(d)
      decpt == DecPt(x)
      ex == NatDigits(Abs(decpt - 1))
  IN IF x.m = 0 THEN <<"0", ".", "0">>
     ELSE IF Positional(x)
     THEN (IF decpt <= 0 THEN <<"0", ".">> \o Zeros(0 - decpt) \o d
           ELSE IF decpt >= n THEN d \o Zeros(decpt - n) \o <<".", "0">>
           ELSE SubSeq(d, 1, decpt) \o <<".">> \o SubSeq(d, decpt + 1, n))
     ELSE <<d[1]>> \o (IF n > 1 THEN <<".">> \o Tail(d) ELSE <<>>)
          \o <<"e", IF decpt - 1 < 0 THEN "-" ELSE "+">>
          \o (IF Len(ex) < 2 THEN <<"0">> ELSE <<>>) \o ex

(***************************************************************************)
(* Properties                                                              *)
(***************************************************************************)
\* whether the word w occurs in s
Contains(s, w) == \E i \in 1..Len(s) : IsPrefixAt(w, s, i)

\* C1: the end-to-end scenario yields the record A123, 01/02/2024, base 80.00,
\* tax 16.80, total 96.80, supplier B12345678 (the identifier after the label
\* "CIF: ") and an empty customer
C1_EndToEnd ==
  (pc = "record" /\ texto = Escenario) =>
    /\ datos.numero_factura = <<"A", "1", "2", "3">>
    /\ datos.fecha_factura = <<"0", "1", "/", "0", "2", "/", "2", "0", "2", "4">>
    /\ datos.base_imponible = Flt(8, 1)
    /\ datos.iva = Flt(168, 0 - 1)
    /\ datos.total = Flt(968, 0 - 1)
    /\ datos.proveedor = <<"B", "1", "2", "3", "4", "5", "6", "7", "8">>
    /\ datos.cliente = <<>>

\* the patterns of a field that match the window with a group that
\* normalizes to a number, 0 included
Yielding(campo, zona) ==
  {k \in 1..Len(patrones_universal) :
     /\ patrones_universal[k].campo = campo
     /\ Search(patrones_universal[k].patron, zona, TRUE).found
     /\ normalizar_importe(PyStr(Search(patrones_universal[k].patron, zona, TRUE).g1)).k = "float"}

FirstOf(S) == CHOOSE a \in S : \A b \in S : a <= b

\* C2: after the pattern loop each field holds the amount of the first pattern
\* in list order that matches with a non-null amount (an amount of 0 included),
\* and is null only if there is no such pattern
C2_FirstPatternWins ==
  (pc = "loop" /\ idx > Len(patrones_universal)) =>
    \A campo \in {"total", "base_imponible", "iva"} :
      LET ks == Yielding(campo, zona_resumen)
      IN IF ks = {} THEN resultado[campo] = None
         ELSE resultado[campo] =
                normalizar_importe(PyStr(
                  Search(patrones_universal[FirstOf(ks)].patron, zona_resumen, TRUE).g1))

\* an amount of at most two decimals, in hundredths
Cents(x) == x.m * Pow10(x.e + 2)

\* the candidate pool as the fallback is described: the numeric-looking tokens
\* of the window that normalize to a number, in document order
Pool(zona) ==
  LET tokens == FindAll(TokenPattern, zona)
  IN SelectSeq([k \in 1..Len(tokens) |-> normalizar_importe(PyStr(tokens[k]))],
               LAMBDA x : x.k = "float")

\* the candidates v with 0.7 * total <= v <= 0.95 * total
Coherent(total, pool) ==
  {k \in 1..Len(pool) : /\ 70 * Cents(total) <= 100 * Cents(pool[k])
                        /\ 100 * Cents(pool[k]) <= 95 * Cents(total)}

C4_WindowOnly ==
  pc = "return" => resultado = extraer_importes_universal(Suffix(texto, 3000))

\* a text longer than the window whose cut-off part holds a labeled total,
\* and no total was found
C4_Witness ==
  /\ pc = "return"
  /\ Len(texto) > 3000
  /\ extraer_importes_universal(SubSeq(texto, 1, Len(texto) - 3000)).total # None
  /\ resultado.total = None

SubtotalLine == <<"S", "u", "b", "t", "o", "t", "a", "l", ":", " ", "8", "0", ",", "0", "0">>

TotalLines ==
  {[line |-> <<"T", "o", "t", "a", "l", ":", " ", "1", "0", "0", ",", "0", "0">>, total |-> Flt(1, 2)],
   [line |-> <<"T", "o", "t", "a", "l", ":", " ", "5", ",", "0", "0">>, total |-> Flt(5, 0)],
   [line |-> <<"T", "o", "t", "a", "l", ":", " ", "9", "6", ",", "8", "0">>, total |-> Flt(968, 0 - 1)]}

\* C10: for "Subtotal: a" followed by "Total: b" the base is a and the total
\* is b
C10_SubtotalIsBase ==
  \A tl \in TotalLines :
    (pc = "return" /\ texto = SubtotalLine \o <<"\n">> \o tl.line) =>
      /\ resultado.base_imponible = Flt(8, 1)
      /\ resultado.total = tl.total

ReturnedImporte == pc = "returned" /\ ret.fn = "normalizar_importe" /\ ret.v.k = "float"

\* C5 as stated: normalize_amount(str(normalize_amount(x))) = normalize_amount(x)
\* for every x with a numeric result, exponent renderings included
C5_Idempotent ==
  ReturnedImporte => normalizar_importe(PyStr(FloatStr(ret.v))) = ret.v

\* C5 amended: the same for every x whose result str renders in positional
\* notation (0, or 1e-4 <= value < 1e16)
C5_IdempotentPositional ==
  (ReturnedImporte /\ Positional(ret.v)) =>
    normalizar_importe(PyStr(FloatStr(ret.v))) = ret.v

\* "96,80" has been normalized to 96.8, which renders as "96.8"
C5_Witness ==
  /\ ReturnedImporte
  /\ arg = PyStr(<<"9", "6", ",", "8", "0">>)
  /\ ret.v = Flt(968, 0 - 1)
  /\ FloatStr(ret.v) = <<"9", "6", ".", "8">>

LabeledF123 ==
  {<<"N", "ú", "m", "e", "r", "o", " ", "d", "e", " ", "f", "a", "c", "t", "u", "r", "a", ":", " ", "F", "1", "2", "3">>,
   <<"N", "o", ".", " ", "d", "e", " ", "f", "a", "c", "t", "u", "r", "a", ":", " ", "F", "1", "2", "3">>,
   <<"N", "°", " ", "d", "e", " ", "f", "a", "c", "t", "u", "r", "a", ":", " ", "F", "1", "2", "3">>}

\* C6: a text containing "Número de factura: F123", "No. de factura: F123" or
\* "N° de factura: F123" yields the invoice number F123
C6_NumeroDeFactura ==
  (pc = "record" /\ \E w \in LabeledF123 : Contains(texto, w)) =>
    datos.numero_factura = <<"F", "1", "2", "3">>

EndsWithPdf(n) == Len(n) >= 4 /\ SubSeq(n, Len(n) - 3, Len(n)) = <<".", "p", "d", "f">>

\* C7: with a non-empty filename the record has a non-empty invoice number and
\* carries the filename; when no invoice-number pattern matches, the invoice
\* number is the filename without its final ".pdf"
C7_Identifier ==
  (pc = "record" /\ nombre_fichero # <<>>) =>
    /\ datos.numero_factura # <<>>
    /\ datos.nombre_fichero = nombre_fichero
    /\ (~NumeroMatch(texto).found /\ EndsWithPdf(nombre_fichero)) =>
         datos.numero_factura = SubSeq(nombre_fichero, 1, Len(nombre_fichero) - 4)

\* the records collected for the document named n
RecordsOf(n) == {j \in 1..Len(filas) : filas[j].nombre_fichero = n}

RawText(k) == extraer_texto_completo(docs[k], PYMUPDF_AVAILABLE)

\* a text with a character that is not whitespace
NonBlank(t) == \E i \in 1..Len(t) : t[i] \notin Space

\* C8 as stated: after the loop there is exactly one record per document with
\* non-empty extracted text and none per document with empty text, no call of
\* the field extractor had empty text, and each record carries the name of
\* its document
C8_RecordPerNonEmpty ==
  pc = "exit" =>
    /\ \A k \in 1..Len(docs) :
         Cardinality(RecordsOf(docs[k].name)) = IF RawText(k) # <<>> THEN 1 ELSE 0
    /\ \A j \in 1..Len(llamadas) : llamadas[j].texto # <<>>
    /\ \A j \in 1..Len(filas) :
         \E k \in 1..Len(docs) : /\ filas[j].nombre_fichero = docs[k].name
                                 /\ llamadas[j].texto = RawText(k)

\* C8 amended: one record per document whose extracted text has a
\* non-whitespace character, none per document whose text is empty or all
\* whitespace; no call of the field extractor had empty or blank text; every
\* document was processed; each record carries the name of its document
C8_RecordPerNonBlank ==
  pc = "exit" =>
    /\ procesados = Len(docs)
    /\ Len(llamadas) = Len(filas)
    /\ \A k \in 1..Len(docs) :
         Cardinality(RecordsOf(docs[k].name)) = IF NonBlank(RawText(k)) THEN 1 ELSE 0
    /\ \A j \in 1..Len(llamadas) : NonBlank(llamadas[j].texto)
    /\ \A j \in 1..Len(filas) :
         \E k \in 1..Len(docs) : /\ filas[j].nombre_fichero = docs[k].name
                                 /\ llamadas[j].nombre = docs[k].name
                                 /\ llamadas[j].texto = RawText(k)

\* a document of one blank page was skipped and the document after it has
\* its record
C8_Witness ==
  /\ pc = "exit"
  /\ Len(docs) = 2
  /\ RawText(1) = <<"\n">>
  /\ RecordsOf(docs[1].name) = {}
  /\ RecordsOf(docs[2].name) = {1}
  /\ salida.ret = 0

\* the characters of a str argument that are digits, dots or commas
Separators(s) == Len(Keep(s, {".", ","}))

\* C9: no normalizer raises; on an empty or absent argument they return "", ""
\* and None; normalizar_importe returns None when the cleaned string has no
\* digit or more than one separator; the amount extractor's result has exactly
\* the keys total, base_imponible and iva, each a float or None
C9_Total ==
  /\ pc = "returned" =>
       /\ ret.v.k # "raise"
       /\ ret.fn \in {"normalizar_numero", "normalizar_fecha"} =>
            /\ ret.v.k = "str"
            /\ ~Truthy(arg) => ret.v = PyStr(<<>>)
       /\ ret.fn = "normalizar_importe" =>
            /\ ret.v.k \in {"float", "None"}
            /\ ~Truthy(arg) => ret.v = None
            /\ (Truthy(arg) /\ (Keep(arg.v, Digits) = <<>> \/ Separators(arg.v) > 1)) =>
                 ret.v = None
  /\ pc \in {"loop", "return"} =>
       /\ DOMAIN resultado = {"total", "base_imponible", "iva"}
       /\ \A campo \in DOMAIN resultado : resultado[campo].k \in {"float", "None"}

\* "1.234,56" cleans to "1.234.56", which float() rejects: None is returned
C9_Witness ==
  /\ pc = "returned"
  /\ ret.fn = "normalizar_importe"
  /\ arg = PyStr(<<"1", ".", "2", "3", "4", ",", "5", "6">>)
  /\ ret.v = None

====
